---- MODULE Spec2Model ----
(***************************************************************************)
(* Model of get_last_tag.py: the regex builder, the tag fetcher and the    *)
(* version selector.                                                       *)
(*                                                                         *)
(* A Python str is a sequence of one-character strings, a                  *)
(* semantic_version.Version a record of its five fields.  The library      *)
(* calls the script makes (Version(), Version.coerce, the comparisons,     *)
(* re.compile, Pattern.match) are operators that compute what the library  *)
(* computes on the strings considered: digits, '.', '-', '+', ')' and a    *)
(* few letters.  The registry tool prints each line followed by CR LF; no  *)
(* line holds a CR or an LF of its own.                                    *)
(*                                                                         *)
(* A behaviour is one call, of _find_latest_tag(tags, current_version) or  *)
(* of get_last_tag(repo_public_url, current_tag), from its arguments to    *)
(* the value returned or the exception that ends it.                       *)
(***************************************************************************)
EXTENDS Integers, Sequences, FiniteSets, TLC

VARIABLES
    entry,            \* the function called: get_last_tag or _find_latest_tag
    pc,               \* position in the called function
    repo_url,         \* repo_public_url / repo_url
    current_tag,      \* current_tag / current_version as supplied, or None
    version_regex,    \* version_regex / tag_regex, as its pattern string
    raw,              \* output of the regctl container, before decoding
    tags,             \* the tuple _find_latest_tag scans
    idx,              \* position of the for loop in tags
    latest_tag,
    latest_version,
    outcome,          \* "running", "returned" or the exception raised
    message,          \* argument of SystemExit
    result            \* the value returned

vars == <<entry, pc, repo_url, current_tag, version_regex, raw, tags, idx,
          latest_tag, latest_version, outcome, message, result>>

\* Longest tuple of tags (selector) or of output lines (fetcher) considered.
MaxTags == 3

(***************************************************************************)
(* Characters and strings                                                  *)
(***************************************************************************)

\* Python's None, for an absent str argument.
None == <<"<None>">>

Digits == {"0", "1", "2", "3", "4", "5", "6", "7", "8", "9"}

Letters == {"a", "b", "e", "f", "o", "t", "v"}

\* str.isdigit / int() on one character.
DigitVal(c) ==
    CASE c = "0" -> 0 [] c = "1" -> 1 [] c = "2" -> 2 [] c = "3" -> 3
      [] c = "4" -> 4 [] c = "5" -> 5 [] c = "6" -> 6 [] c = "7" -> 7
      [] c = "8" -> 8 [] c = "9" -> 9

\* Code point of a character (Python compares str by code point).
Ord(c) ==
    CASE c \in Digits -> 48 + DigitVal(c)
      [] c = ")" -> 41 [] c = "+" -> 43 [] c = "-" -> 45 [] c = "." -> 46
      [] c = "a" -> 97 [] c = "b" -> 98 [] c = "e" -> 101 [] c = "f" -> 102
      [] c = "o" -> 111 [] c = "t" -> 116 [] c = "v" -> 118
      [] OTHER -> 0

\* s[n:] of Python, n counted from 0.
Drop(s, n) == SubSeq(s, n + 1, Len(s))

\* s[:n] of Python.
Take(s, n) == SubSeq(s, 1, n)

\* Length of the longest prefix of s made of digits (a greedy \d*).
DigitPrefixLen(s) ==
    CHOOSE k \in 0..Len(s) :
        /\ \A j \in 1..k : s[j] \in Digits
        /\ (k < Len(s) => s[k + 1] \notin Digits)

\* Length of the longest prefix of s holding no character c.
PrefixBefore(s, c) ==
    CHOOSE k \in 0..Len(s) :
        /\ \A j \in 1..k : s[j] # c
        /\ (k < Len(s) => s[k + 1] = c)

RECURSIVE ToInt(_)
\* int(s) for a string of digits.
ToInt(s) ==
    IF s = <<>> THEN 0
    ELSE 10 * ToInt(Take(s, Len(s) - 1)) + DigitVal(s[Len(s)])

RECURSIVE Split(_, _)
\* s.split(c) for a one-character separator.
Split(s, c) ==
    LET k == PrefixBefore(s, c)
    IN  IF k = Len(s) THEN <<s>>
        ELSE <<Take(s, k)>> \o Split(Drop(s, k + 1), c)

RECURSIVE SplitCRLF(_)
\* s.split('\r\n').
SplitCRLF(s) ==
    IF \E k \in 1..(Len(s) - 1) : s[k] = "\r" /\ s[k + 1] = "\n"
    THEN LET k == CHOOSE k \in 1..(Len(s) - 1) :
                      /\ s[k] = "\r" /\ s[k + 1] = "\n"
                      /\ \A j \in 1..(k - 1) : ~(s[j] = "\r" /\ s[j + 1] = "\n")
         IN  <<Take(s, k - 1)>> \o SplitCRLF(Drop(s, k + 1))
    ELSE <<s>>

RECURSIVE LstripZero(_)
\* part.lstrip('0').
LstripZero(s) ==
    IF s # <<>> /\ s[1] = "0" THEN LstripZero(Tail(s)) ELSE s

(***************************************************************************)
(* semantic_version.Version, as _find_latest_tag uses it                   *)
(***************************************************************************)

\* The value convert_to_sem_ver returns for a tag that is no version.
NoneVer == [none |-> TRUE]

IsVer(v) == "none" \notin DOMAIN v

\* The character class [0-9a-zA-Z.-] of Version.version_re.
IdChars == Digits \cup Letters \cup {".", "-"}

AllIn(s, S) == \A j \in 1..Len(s) : s[j] \in S

IsNumericId(s) == s # <<>> /\ AllIn(s, Digits)

\* _has_leading_zero: a number written with a superfluous leading zero.
HasLeadingZero(s) == Len(s) > 1 /\ s[1] = "0" /\ AllIn(s, Digits)

\* Version._validate_identifiers.
ValidIdentifiers(ids, allow_leading_zeroes) ==
    \A j \in 1..Len(ids) :
        /\ ids[j] # <<>>
        /\ (allow_leading_zeroes \/ ~HasLeadingZero(ids[j]))

\* semantic_version.Version(s): the strict parse; NoneVer stands for ValueError.
VersionParse(s) ==
    LET a == DigitPrefixLen(s)
        r1 == Drop(s, a + 1)
        b == DigitPrefixLen(r1)
        r2 == Drop(r1, b + 1)
        c == DigitPrefixLen(r2)
        r3 == Drop(r2, c)
        shapeOK == /\ a >= 1 /\ Len(s) > a /\ s[a + 1] = "."
                   /\ b >= 1 /\ Len(r1) > b /\ r1[b + 1] = "."
                   /\ c >= 1
        hasPre == r3 # <<>> /\ r3[1] = "-"
        afterDash == Tail(r3)
        p == PrefixBefore(afterDash, "+")
        pre == IF hasPre THEN Take(afterDash, p) ELSE <<>>
        r4 == IF hasPre THEN Drop(afterDash, p) ELSE r3
        hasBuild == r4 # <<>> /\ r4[1] = "+"
        build == IF hasBuild THEN Tail(r4) ELSE <<>>
        tailOK == /\ hasPre => (pre # <<>> /\ AllIn(pre, IdChars))
                  /\ \/ r4 = <<>>
                     \/ hasBuild /\ build # <<>> /\ AllIn(build, IdChars)
        preIds == IF pre = <<>> THEN <<>> ELSE Split(pre, ".")
        buildIds == IF build = <<>> THEN <<>> ELSE Split(build, ".")
    IN  IF /\ shapeOK
           /\ tailOK
           /\ ~HasLeadingZero(Take(s, a))
           /\ ~HasLeadingZero(Take(r1, b))
           /\ ~HasLeadingZero(Take(r2, c))
           /\ ValidIdentifiers(preIds, FALSE)
           /\ ValidIdentifiers(buildIds, TRUE)
        THEN [major |-> ToInt(Take(s, a)), minor |-> ToInt(Take(r1, b)),
              patch |-> ToInt(Take(r2, c)), prerelease |-> preIds,
              build |-> buildIds]
        ELSE NoneVer

\* re.sub(r'[^a-zA-Z0-9+.-]', '-', rest) of Version.coerce.
CleanRest(s) ==
    [j \in 1..Len(s) |->
        IF s[j] \in Digits \cup Letters \cup {"+", ".", "-"} THEN s[j] ELSE "-"]

\* build.replace('+', '.') of Version.coerce.
PlusToDot(s) == [j \in 1..Len(s) |-> IF s[j] = "+" THEN "." ELSE s[j]]

\* part.lstrip('0') or '0'.
StripPart(s) == IF LstripZero(s) = <<>> THEN <<"0">> ELSE LstripZero(s)

\* semantic_version.Version.coerce(s): the lenient parse; NoneVer stands for
\* ValueError.
VersionCoerce(s) ==
    LET a == DigitPrefixLen(s)
        r1 == Drop(s, a + 1)
        b == IF Len(s) > a /\ s[a + 1] = "." THEN DigitPrefixLen(r1) ELSE 0
        r2 == Drop(r1, b + 1)
        c == IF b >= 1 /\ Len(r1) > b /\ r1[b + 1] = "."
             THEN DigitPrefixLen(r2) ELSE 0
        end == a + (IF b >= 1 THEN 1 + b ELSE 0) + (IF c >= 1 THEN 1 + c ELSE 0)
        major == StripPart(Take(s, a))
        minor == IF b >= 1 THEN StripPart(Take(r1, b)) ELSE <<"0">>
        patch == IF c >= 1 THEN StripPart(Take(r2, c)) ELSE <<"0">>
        version == major \o <<".">> \o minor \o <<".">> \o patch
        rest == CleanRest(Drop(s, end))
        dashed == Tail(rest)
        plusAt == PrefixBefore(rest, "+")
        plusAtD == PrefixBefore(dashed, "+")
        prerelease ==
            CASE rest[1] = "+" -> <<>>
              [] rest[1] = "." -> <<>>
              [] rest[1] = "-" -> Take(dashed, plusAtD)
              [] OTHER -> Take(rest, plusAt)
        build ==
            CASE rest[1] = "+" -> Tail(rest)
              [] rest[1] = "." -> Tail(rest)
              [] rest[1] = "-" -> Drop(dashed, plusAtD + 1)
              [] OTHER -> Drop(rest, plusAt + 1)
    IN  IF a = 0 THEN NoneVer
        ELSE IF end = Len(s) THEN VersionParse(version)
        ELSE VersionParse(
                 version
                 \o (IF prerelease # <<>> THEN <<"-">> \o prerelease ELSE <<>>)
                 \o (IF build # <<>> THEN <<"+">> \o PlusToDot(build) ELSE <<>>))

\* x < y for two Python str: by code point, a proper prefix first.
StrLt(x, y) ==
    \E k \in 1..(Len(x) + 1) :
        /\ k <= Len(y)
        /\ \A j \in 1..(k - 1) : x[j] = y[j]
        /\ (k = Len(x) + 1 \/ Ord(x[k]) < Ord(y[k]))

\* NumericIdentifier / AlphaIdentifier ordering of prerelease identifiers.
IdLt(x, y) ==
    CASE IsNumericId(x) /\ IsNumericId(y) -> ToInt(x) < ToInt(y)
      [] IsNumericId(x) /\ ~IsNumericId(y) -> TRUE
      [] ~IsNumericId(x) /\ IsNumericId(y) -> FALSE
      [] OTHER -> StrLt(x, y)

\* p < q for two tuples of prerelease identifiers.
IdsLt(p, q) ==
    \E k \in 1..(Len(p) + 1) :
        /\ k <= Len(q)
        /\ \A j \in 1..(k - 1) : p[j] = q[j]
        /\ (k = Len(p) + 1 \/ IdLt(p[k], q[k]))

\* Order of the prerelease part of Version.precedence_key: no prerelease is
\* (MaxIdentifier(),), above every prerelease.
PreKeyLt(p, q) ==
    CASE p = <<>> -> FALSE
      [] q = <<>> -> TRUE
      [] OTHER -> IdsLt(p, q)

\* Version.__lt__: comparison of precedence_key (build metadata left out).
VersionLt(x, y) ==
    \/ x.major < y.major
    \/ x.major = y.major /\ x.minor < y.minor
    \/ x.major = y.major /\ x.minor = y.minor /\ x.patch < y.patch
    \/ /\ x.major = y.major /\ x.minor = y.minor /\ x.patch = y.patch
       /\ PreKeyLt(x.prerelease, y.prerelease)

\* Version.__gt__.
VersionGt(x, y) == VersionLt(y, x)

\* Version.__eq__ (build metadata included); a Version never equals None.
VersionEq(x, y) == IsVer(x) /\ IsVer(y) /\ x = y

(***************************************************************************)
(* Regex builder and the patterns it produces                              *)
(***************************************************************************)

\* r'(0|[1-9]\d*)'
GroupPattern == <<"(", "0", "|", "[", "1", "-", "9", "]", "\\", "d", "*", ")">>

\* '[.]'
DotPattern == <<"[", ".", "]">>

\* Stands for the default semantic versioning pattern, a fixed literal.
DefaultPattern == <<"<semver>">>

\* re.error raised by re.compile.
ReError == <<"<re.error>">>

RECURSIVE WalkTag(_, _)
\* The for loop of _create_regex_from_current_tag over the characters left.
WalkTag(regex_pattern, chars) ==
    IF chars = <<>> THEN regex_pattern
    ELSE LET char == Head(chars)
         IN  WalkTag(
                 IF char \in Digits
                 THEN IF regex_pattern[Len(regex_pattern)] # ")"
                      THEN regex_pattern \o GroupPattern
                      ELSE regex_pattern
                 ELSE IF char = "." THEN regex_pattern \o DotPattern
                 ELSE regex_pattern \o <<char>>,
                 Tail(chars))

\* The pattern string _create_regex_from_current_tag hands to re.compile.
RegexPattern(tag) ==
    IF tag = None \/ tag = <<>> THEN DefaultPattern
    ELSE WalkTag(<<"^">>, tag) \o <<"$">>

IsPrefix(p, s) == Len(p) <= Len(s) /\ Take(s, Len(p)) = p

\* The parse of a pattern that re.compile rejects.
BadPattern == <<[t |-> "error"]>>

RECURSIVE Tokens(_)
\* The parse of the body of a built pattern: a sequence of groups, literal
\* dots and literal characters; a ')' that closes nothing is rejected.
Tokens(body) ==
    IF body = <<>> THEN <<>>
    ELSE IF IsPrefix(GroupPattern, body)
    THEN LET rest == Tokens(Drop(body, Len(GroupPattern)))
         IN  IF rest = BadPattern THEN BadPattern
             ELSE <<[t |-> "group"]>> \o rest
    ELSE IF IsPrefix(DotPattern, body)
    THEN LET rest == Tokens(Drop(body, Len(DotPattern)))
         IN  IF rest = BadPattern THEN BadPattern
             ELSE <<[t |-> "dot"]>> \o rest
    ELSE IF Head(body) = ")" THEN BadPattern
    ELSE LET rest == Tokens(Tail(body))
         IN  IF rest = BadPattern THEN BadPattern
             ELSE <<[t |-> "lit", c |-> Head(body)]>> \o rest

\* re.compile(pattern): the pattern itself, or ReError.
Compile(pattern) ==
    IF pattern = DefaultPattern THEN pattern
    ELSE IF Tokens(SubSeq(pattern, 2, Len(pattern) - 1)) = BadPattern
    THEN ReError
    ELSE pattern

\* A number as (0|[1-9]\d*) matches it.
SemVerNumber(s) ==
    s # <<>> /\ AllIn(s, Digits) /\ (Len(s) = 1 \/ s[1] # "0")

RECURSIVE MatchTokens(_, _)
\* Whether the token sequence matches all of s.
MatchTokens(toks, s) ==
    IF toks = <<>> THEN s = <<>>
    ELSE LET tk == Head(toks)
         IN  CASE tk.t = "group" ->
                    \E k \in 1..Len(s) :
                        /\ SemVerNumber(Take(s, k))
                        /\ MatchTokens(Tail(toks), Drop(s, k))
               [] tk.t = "dot" ->
                    s # <<>> /\ s[1] = "." /\ MatchTokens(Tail(toks), Tail(s))
               [] OTHER ->
                    s # <<>> /\ s[1] = tk.c /\ MatchTokens(Tail(toks), Tail(s))

\* Length of the longest prefix of s holding no character of S.
PrefixBeforeAny(s, S) ==
    CHOOSE k \in 0..Len(s) :
        /\ \A j \in 1..k : s[j] \notin S
        /\ (k < Len(s) => s[k + 1] \in S)

\* A prerelease identifier of the default pattern.
PreId(s) ==
    /\ s # <<>>
    /\ AllIn(s, Digits \cup Letters \cup {"-"})
    /\ (AllIn(s, Digits) => SemVerNumber(s))

\* A build metadata identifier of the default pattern.
BuildId(s) == s # <<>> /\ AllIn(s, Digits \cup Letters \cup {"-"})

\* Whether the default semantic versioning pattern matches s.
DefaultMatch(s) ==
    LET t == IF s # <<>> /\ s[1] = "v" THEN Tail(s) ELSE s
        n == PrefixBeforeAny(t, {"-", "+"})
        core == Split(Take(t, n), ".")
        rest == Drop(t, n)
        afterDash == Tail(rest)
        p == PrefixBefore(afterDash, "+")
        hasPre == rest # <<>> /\ rest[1] = "-"
        pre == IF hasPre THEN Split(Take(afterDash, p), ".") ELSE <<>>
        rest2 == IF hasPre THEN Drop(afterDash, p) ELSE rest
        build == IF rest2 # <<>> THEN Split(Tail(rest2), ".") ELSE <<>>
    IN  /\ Len(core) = 3
        /\ \A j \in 1..3 : SemVerNumber(core[j])
        /\ \A j \in 1..Len(pre) : PreId(pre[j])
        /\ \A j \in 1..Len(build) : BuildId(build[j])

\* tag_regex.match(tag) for a compiled pattern.
Match(pattern, s) ==
    IF pattern = DefaultPattern THEN DefaultMatch(s)
    ELSE MatchTokens(Tokens(SubSeq(pattern, 2, Len(pattern) - 1)), s)

(***************************************************************************)
(* Inputs                                                                  *)
(***************************************************************************)

Tag_v1_2_3 == <<"v", "1", ".", "2", ".", "3">>
Tag_v1_3_0 == <<"v", "1", ".", "3", ".", "0">>
Tag_1_3_0 == <<"1", ".", "3", ".", "0">>
Tag_1_2_9 == <<"1", ".", "2", ".", "9">>
Tag_1_2_3 == <<"1", ".", "2", ".", "3">>
Tag_1_3_0_a == <<"1", ".", "3", ".", "0", "-", "a">>
Tag_1_3 == <<"1", ".", "3">>
Tag_0_0_0 == <<"0", ".", "0", ".", "0">>
Tag_0_0_0_a == <<"0", ".", "0", ".", "0", "-", "a">>
Tag_0_0_0_b == <<"0", ".", "0", ".", "0", "+", "b">>
Tag_foo == <<"f", "o", "o">>
Tag_empty == <<>>
Tag_v1_2_3_beta == <<"v", "1", ".", "2", ".", "3", "-", "b", "e", "t", "a">>
Tag_v2_5_9_beta == <<"v", "2", ".", "5", ".", "9", "-", "b", "e", "t", "a">>
Tag_1_paren_2 == <<"1", ")", "2">>

\* Tags a caller may hand to _find_latest_tag.
TagPool ==
    {Tag_v1_2_3, Tag_v1_3_0, Tag_1_3_0, Tag_1_2_9, Tag_1_3_0_a, Tag_0_0_0,
     Tag_foo, Tag_empty}

\* Current versions a caller may hand to _find_latest_tag.
VersionPool ==
    {None, Tag_1_3, Tag_v1_2_3, Tag_0_0_0, Tag_0_0_0_a, Tag_0_0_0_b, Tag_foo}

\* Current tags a caller may hand to get_last_tag.
CurrentTagPool == {None, Tag_1_3_0, Tag_v1_2_3_beta, Tag_1_paren_2}

\* Lines the registry tool may print.
LinePool ==
    {Tag_1_2_3, Tag_1_3_0, Tag_v1_3_0, Tag_v2_5_9_beta, Tag_foo}

RepoPool == {"nginx", "ghcr.io/org/app"}

\* Tuples over S of length at most MaxTags.
TuplesOf(S) == UNION {[1..n -> S] : n \in 0..MaxTags}

RECURSIVE JoinLines(_)
\* What the tool prints on a tty for these lines: each followed by '\r\n'.
JoinLines(lines) ==
    IF lines = <<>> THEN <<>>
    ELSE Head(lines) \o <<"\r", "\n">> \o JoinLines(Tail(lines))

(***************************************************************************)
(* _find_latest_tag                                                        *)
(***************************************************************************)

\* '0.0.0'
ZeroVersion == <<"0", ".", "0", ".", "0">>

\* What convert_to_sem_ver raises on '' (the read of _tag[0]).
IndexError == [raise |-> "IndexError"]

\* convert_to_sem_ver(_tag): a Version, NoneVer, or IndexError.
convert_to_sem_ver(tag) ==
    IF tag = <<>> THEN IndexError
    ELSE LET stripped == IF tag[1] = "v" THEN Tail(tag) ELSE tag
         IN  IF IsVer(VersionParse(stripped)) THEN VersionParse(stripped)
             ELSE VersionCoerce(stripped)

\* The comparison turned around: tag_ver < latest_version.
ExceedsReversed(tag_ver, latest) == VersionLt(tag_ver, latest)

\* Only the major component compared.
ExceedsMajorOnly(tag_ver, latest) == tag_ver.major > latest.major

\* tag_ver >= latest_version: an equal candidate replaces the maximum.
ExceedsOrEqual(tag_ver, latest) == ~VersionLt(tag_ver, latest)

\* tag_ver > latest_version for the loop's candidate.
Exceeds(tag_ver, latest) == VersionGt(tag_ver, latest)

\* The final test left out: the running maximum is always returned.
NotRetrievedNever(latest) == FALSE

\* The test that ends _find_latest_tag with SystemExit.
NotRetrieved(latest) == VersionEq(latest, convert_to_sem_ver(ZeroVersion))

\* current_version if current_version else '0.0.0'
Baseline(current_version) ==
    IF current_version = None \/ current_version = <<>> THEN ZeroVersion
    ELSE current_version

\* The message of the SystemExit that ends _find_latest_tag.
NotRetrievedMessage ==
    <<"Latest tag not retrieved, obtained tags cannot be compared">>

\* Lines 101-102: the baseline of the scan.
FindStart ==
    /\ pc = "find_latest_tag"
    /\ latest_tag' = Baseline(current_tag)
    /\ latest_version' = convert_to_sem_ver(Baseline(current_tag))
    /\ idx' = 1
    /\ pc' = "scan"
    /\ UNCHANGED <<entry, repo_url, current_tag, version_regex, raw, tags, outcome,
                   message, result>>

\* Lines 104-109: one iteration of the for loop.
ScanStep ==
    /\ pc = "scan"
    /\ idx <= Len(tags)
    /\ LET tag == tags[idx]
           tag_ver == convert_to_sem_ver(tag)
       IN  IF tag_ver = IndexError
           THEN /\ outcome' = "IndexError"
                /\ pc' = "done"
                /\ UNCHANGED <<idx, latest_tag, latest_version>>
           ELSE IF ~IsVer(tag_ver)
           THEN /\ idx' = idx + 1
                /\ UNCHANGED <<pc, outcome, latest_tag, latest_version>>
           ELSE IF ~IsVer(latest_version)
           THEN /\ outcome' = "TypeError"
                /\ pc' = "done"
                /\ UNCHANGED <<idx, latest_tag, latest_version>>
           ELSE /\ idx' = idx + 1
                /\ IF Exceeds(tag_ver, latest_version)
                   THEN latest_tag' = tag /\ latest_version' = tag_ver
                   ELSE UNCHANGED <<latest_tag, latest_version>>
                /\ UNCHANGED <<pc, outcome>>
    /\ UNCHANGED <<entry, repo_url, current_tag, version_regex, raw, tags, message,
                   result>>

\* Lines 111-114 (and 133-135 when get_last_tag is the caller).
FindEnd ==
    /\ pc = "scan"
    /\ idx > Len(tags)
    /\ IF NotRetrieved(latest_version)
       THEN /\ outcome' = "SystemExit"
            /\ message' = NotRetrievedMessage
            /\ UNCHANGED result
       ELSE /\ outcome' = "returned"
            /\ result' = latest_tag
            /\ UNCHANGED message
    /\ pc' = "done"
    /\ UNCHANGED <<entry, repo_url, current_tag, version_regex, raw, tags, idx,
                   latest_tag, latest_version>>

(***************************************************************************)
(* get_last_tag and _get_repository_tags                                   *)
(***************************************************************************)

\* f'Could not connect to the repository: {repo_url}'
ConnectMessage(repo) == <<"Could not connect to the repository: ", repo>>

\* The message for any other docker error.
EngineMessage ==
    <<"Could not run a contaier. Check if docker engine is running.">>

\* f'No relevant tags downloaded for repository: {repo_url}'
NoTagsMessage(repo) == <<"No relevant tags downloaded for repository: ", repo>>

\* Line 131: _create_regex_from_current_tag; re.compile may raise re.error.
CreateRegex ==
    /\ pc = "create_regex"
    /\ version_regex' = RegexPattern(current_tag)
    /\ IF Compile(version_regex') = ReError
       THEN outcome' = "re.error" /\ pc' = "done"
       ELSE pc' = "from_env" /\ UNCHANGED outcome
    /\ UNCHANGED <<entry, repo_url, current_tag, raw, tags, idx, latest_tag,
                   latest_version, message, result>>

\* Line 29: docker.from_env() returns a client.
FromEnvOk ==
    /\ pc = "from_env"
    /\ pc' = "run"
    /\ UNCHANGED <<entry, repo_url, current_tag, version_regex, raw, tags, idx,
                   latest_tag, latest_version, outcome, message, result>>

\* Line 29: docker.from_env() raises DockerException (no engine, bad
\* configuration); the call is outside the try statement.
FromEnvRaises ==
    /\ pc = "from_env"
    /\ outcome' = "DockerException"
    /\ pc' = "done"
    /\ UNCHANGED <<entry, repo_url, current_tag, version_regex, raw, tags, idx,
                   latest_tag, latest_version, message, result>>

\* Lines 31-37: the container runs and prints the tags.
RunOk ==
    /\ pc = "run"
    /\ \E lines \in TuplesOf(LinePool) : raw' = JoinLines(lines)
    /\ pc' = "filter"
    /\ UNCHANGED <<entry, repo_url, current_tag, version_regex, tags, idx, latest_tag,
                   latest_version, outcome, message, result>>

\* Lines 38-39: the container exits with an error.
RunContainerError ==
    /\ pc = "run"
    /\ outcome' = "SystemExit"
    /\ message' = ConnectMessage(repo_url)
    /\ pc' = "done"
    /\ UNCHANGED <<entry, repo_url, current_tag, version_regex, raw, tags, idx,
                   latest_tag, latest_version, result>>

\* Lines 40-41: any other docker error while running the container.
RunDockerException ==
    /\ pc = "run"
    /\ outcome' = "SystemExit"
    /\ message' = EngineMessage
    /\ pc' = "done"
    /\ UNCHANGED <<entry, repo_url, current_tag, version_regex, raw, tags, idx,
                   latest_tag, latest_version, result>>

\* The filter left out: every line of the output is kept.
FilterTagsKeepAll(output, tag_regex) == SplitCRLF(output)

\* Line 43: the lines of the output the regex matches.
FilterTags(output, tag_regex) ==
    SelectSeq(SplitCRLF(output), LAMBDA tag : Match(tag_regex, tag))

\* Lines 43-46 and 132-133: filter, exit when nothing is left, else hand the
\* tuple to _find_latest_tag.
Filter ==
    /\ pc = "filter"
    /\ LET kept == FilterTags(raw, version_regex)
       IN  IF kept = <<>>
           THEN /\ outcome' = "SystemExit"
                /\ message' = NoTagsMessage(repo_url)
                /\ pc' = "done"
                /\ UNCHANGED tags
           ELSE /\ tags' = kept
                /\ pc' = "find_latest_tag"
                /\ UNCHANGED <<outcome, message>>
    /\ UNCHANGED <<entry, repo_url, current_tag, version_regex, raw, idx, latest_tag,
                   latest_version, result>>

(***************************************************************************)
(* Specification                                                           *)
(***************************************************************************)

\* A call of _find_latest_tag(tags, current_version) or of
\* get_last_tag(repo_public_url, current_tag).
Init ==
    /\ entry \in {"_find_latest_tag", "get_last_tag"}
    /\ IF entry = "_find_latest_tag"
       THEN /\ pc = "find_latest_tag"
            /\ repo_url = ""
            /\ current_tag \in VersionPool
            /\ tags \in TuplesOf(TagPool)
       ELSE /\ pc = "create_regex"
            /\ repo_url \in RepoPool
            /\ current_tag \in CurrentTagPool
            /\ tags = <<>>
    /\ version_regex = <<>>
    /\ raw = <<>>
    /\ idx = 0
    /\ latest_tag = <<>>
    /\ latest_version = NoneVer
    /\ outcome = "running"
    /\ message = <<>>
    /\ result = None

Next ==
    \/ FindStart
    \/ ScanStep
    \/ FindEnd
    \/ CreateRegex
    \/ FromEnvOk
    \/ FromEnvRaises
    \/ RunOk
    \/ RunContainerError
    \/ RunDockerException
    \/ Filter

Spec == Init /\ [][Next]_vars

(***************************************************************************)
(* Properties                                                              *)
(***************************************************************************)

Returned == pc = "done" /\ outcome = "returned"

\* _find_latest_tag ran its loop to the end and reached its final test.
ScanCompleted == pc = "done" /\ idx = Len(tags) + 1

\* convert_to_sem_ver gives a Version for this string.
Parseable(tag) == tag # <<>> /\ IsVer(convert_to_sem_ver(tag))

VerOf(tag) == convert_to_sem_ver(tag)

InTags(s) == \E i \in 1..Len(tags) : tags[i] = s

\* (major, minor, patch) of x below that of y.
MmpLt(x, y) ==
    \/ x.major < y.major
    \/ x.major = y.major /\ x.minor < y.minor
    \/ x.major = y.major /\ x.minor = y.minor /\ x.patch < y.patch

MmpEq(x, y) == x.major = y.major /\ x.minor = y.minor /\ x.patch = y.patch

\* C1: whenever _find_latest_tag returns with a current version supplied, the
\* version of the returned string is not lower than the current version's
\* (a current version that is no version is returned as it is).
C1_NeverBelowCurrent ==
    (Returned /\ current_tag # None) =>
        IF Parseable(current_tag)
        THEN /\ Parseable(result)
             /\ ~VersionLt(VerOf(result), VerOf(current_tag))
        ELSE result = current_tag

\* C1 witness: a returned tag above the current version, with a lower tag in
\* the tuple.
C1_Witness ==
    /\ Returned
    /\ current_tag = Tag_v1_2_3
    /\ result = Tag_v1_3_0
    /\ \E i \in 1..Len(tags) :
           Parseable(tags[i]) /\ VersionLt(VerOf(tags[i]), VerOf(current_tag))

\* C2: with no current version, a returned value is one of the input tags in
\* its original form, and no parseable tag ranks above it: none has a higher
\* (major, minor, patch), and at equal (major, minor, patch) a returned
\* prerelease is beaten by no final release.
C2_ReturnsHighestTag ==
    (Returned /\ current_tag = None) =>
        /\ InTags(result)
        /\ Parseable(result)
        /\ \A i \in 1..Len(tags) :
               Parseable(tags[i]) =>
                   /\ ~MmpLt(VerOf(result), VerOf(tags[i]))
                   /\ (MmpEq(VerOf(result), VerOf(tags[i]))
                       /\ VerOf(tags[i]).prerelease = <<>>)
                          => VerOf(result).prerelease = <<>>
                   /\ ~VersionLt(VerOf(result), VerOf(tags[i]))

\* C2 witness: the tuple ("v1.2.3", "v1.3.0", "1.2.9") gives "v1.3.0".
C2_Witness ==
    /\ Returned
    /\ entry = "_find_latest_tag"
    /\ current_tag = None
    /\ tags = <<Tag_v1_2_3, Tag_v1_3_0, Tag_1_2_9>>
    /\ result = Tag_v1_3_0

\* C3: with the current version absent or unparsable the scan starts from the
\* baseline 0.0.0 and proceeds over the tags (no comparison fails).
C3_UnparsableCurrentGivesZeroBaseline ==
    (pc \in {"scan", "done"} /\ idx >= 1
     /\ (current_tag = None \/ ~Parseable(current_tag))) =>
        /\ outcome # "TypeError"
        /\ (pc = "scan" /\ idx = 1) =>
               latest_version = VerOf(ZeroVersion)

\* C4: every tag that is no version is skipped: the loop goes on to the next
\* tag with the running maximum untouched, and nothing is raised.
C4_UnparsableTagsAreSkipped ==
    [][(pc = "scan" /\ idx <= Len(tags) /\ ~Parseable(tags[idx])) =>
          /\ pc' = "scan"
          /\ idx' = idx + 1
          /\ outcome' = "running"
          /\ UNCHANGED <<latest_tag, latest_version>>]_vars

\* C5: after the scan _find_latest_tag exits exactly when the running maximum
\* is still the 0.0.0 baseline, nothing having improved on it; it returns
\* whenever a tag replaced the baseline.
C5_ExitsExactlyWhenNothingImproved ==
    ScanCompleted =>
        (outcome = "SystemExit" <=>
            /\ latest_tag = Baseline(current_tag)
            /\ VersionEq(latest_version, VerOf(ZeroVersion)))

\* No tag of the tuple has a version above the supplied current version.
NoTagGreater ==
    \A i \in 1..Len(tags) :
        ~(/\ Parseable(tags[i])
          /\ Parseable(current_tag)
          /\ VersionGt(VerOf(tags[i]), VerOf(current_tag)))

RECURSIVE ShapeBody(_, _)
\* The pattern body the shape of a tag calls for: one group for each maximal
\* run of digits, a literal dot for each '.', every other character as it is.
ShapeBody(chars, afterDigit) ==
    IF chars = <<>> THEN <<>>
    ELSE LET c == Head(chars)
         IN  (IF c \in Digits
              THEN IF afterDigit THEN <<>> ELSE GroupPattern
              ELSE IF c = "." THEN DotPattern
              ELSE <<c>>)
             \o ShapeBody(Tail(chars), c \in Digits)

\* C7: for every non-empty example tag the pattern built is '^' + body + '$'
\* with one group per maximal run of digits, whatever the other characters;
\* the pattern of "v1.2.3-beta" matches "v2.5.9-beta" and not "1.2.3".
C7_PatternFollowsShape ==
    (entry = "get_last_tag" /\ pc # "create_regex" /\ current_tag # None) =>
        /\ version_regex = <<"^">> \o ShapeBody(current_tag, FALSE) \o <<"$">>
        /\ current_tag = Tag_v1_2_3_beta =>
               /\ Match(version_regex, Tag_v2_5_9_beta)
               /\ ~Match(version_regex, Tag_1_2_3)

\* The invocation of the external tool failed.
ToolFailed ==
    /\ pc = "done"
    /\ \/ outcome = "DockerException"
       \/ message = ConnectMessage(repo_url)
       \/ message = EngineMessage

\* C8: every failure of the tool invocation ends get_last_tag with SystemExit
\* and one of its two messages; none escapes as another error.
C8_ToolFailureIsSystemExit ==
    ToolFailed =>
        /\ outcome = "SystemExit"
        /\ message \in {ConnectMessage(repo_url), EngineMessage}
        /\ result = None

\* Positions of the lines the regex matches.
KeptPositions(lines) ==
    {i \in 1..Len(lines) : Match(version_regex, lines[i])}

\* The k-th smallest of a set of positions.
KthOf(positions, k) ==
    CHOOSE i \in positions : Cardinality({j \in positions : j <= i}) = k

C10_OnlyStrictlyGreaterReplaces ==
    (pc \in {"scan", "done"} /\ idx >= 1) =>
        /\ \/ /\ latest_tag = Baseline(current_tag)
              /\ \A i \in 1..(idx - 1) :
                     (Parseable(tags[i]) /\ IsVer(latest_version)) =>
                         ~VersionGt(VerOf(tags[i]), latest_version)
           \/ \E j \in 1..(idx - 1) :
                  /\ tags[j] = latest_tag
                  /\ latest_version = VerOf(tags[j])
                  /\ VersionLt(VerOf(Baseline(current_tag)), latest_version)
                  /\ \A i \in 1..(j - 1) :
                         Parseable(tags[i]) =>
                             VersionLt(VerOf(tags[i]), latest_version)
        /\ outcome = "returned" => result = latest_tag

\* C10 witness: "1.3.0" after "v1.3.0" leaves "v1.3.0" the one returned.
C10_Witness ==
    /\ Returned
    /\ Len(tags) >= 2
    /\ tags[1] = Tag_v1_3_0
    /\ tags[2] = Tag_1_3_0
    /\ result = Tag_v1_3_0

====
